---- MODULE Spec2Model ----
(***************************************************************************)
(* Scoring of the personality assessment (persona-nextjs).                 *)
(*                                                                         *)
(* A submission is assembled either by the AssessmentClient page (one      *)
(* answer per question of the assessment, each answer one of the two       *)
(* option values of its question, questionCounts tallied by the page from  *)
(* the assessment's questions) or by any other HTTP caller of              *)
(* POST /api/assessment/submit (any array of strings, any questionCounts). *)
(* The route hands answers and questionCounts to                           *)
(* Assessment.calculateResult, which is modelled with JavaScript's number  *)
(* semantics: a division by zero gives Infinity or NaN, a missing          *)
(* denominator gives NaN, and reading a property of undefined throws.      *)
(*                                                                         *)
(* Percentages are computed on exact rationals.  The source computes       *)
(* Math.round((c / n) * 100) on doubles; the two agree whenever n < 40:    *)
(* 100c/n lies exactly on a half only if 8 divides n, and for n < 40 such  *)
(* a quotient c/n is a multiple of 1/8, which doubles represent exactly;   *)
(* every other quotient is at least 1/(2n) away from a half, far more than *)
(* the rounding error of the two floating-point operations.                *)
(***************************************************************************)
EXTENDS Integers, Sequences, FiniteSets, TLC

(***************************************************************************)
(* Bounds of the model.                                                    *)
(***************************************************************************)
\* longest answers array sent by an arbitrary HTTP caller
MaxLen == 2
\* largest denominator an arbitrary HTTP caller puts in questionCounts
MaxQ == 2
\* largest number of questions of one dimension in a stored assessment
MaxDimQ == 8

(***************************************************************************)
(* JavaScript values.                                                      *)
(***************************************************************************)
Num(n) == [kind |-> "number", val |-> n]
NaN == [kind |-> "NaN"]
Infinity == [kind |-> "Infinity"]
Undefined == [kind |-> "undefined"]
Null == [kind |-> "null"]
Str(chars) == [kind |-> "string", chars |-> chars]

IsFinite(x) == x.kind = "number"

\* a >= b on JavaScript numbers that are never negative here
Geq(a, b) ==
  CASE a.kind = "NaN" \/ b.kind = "NaN" -> FALSE
    [] a.kind = "Infinity" -> TRUE
    [] b.kind = "Infinity" -> FALSE
    [] OTHER -> a.val >= b.val

\* Math.abs(a - b) on JavaScript numbers that are never negative here
AbsDiff(a, b) ==
  CASE a.kind = "NaN" \/ b.kind = "NaN" -> NaN
    [] a.kind = "Infinity" /\ b.kind = "Infinity" -> NaN
    [] a.kind = "Infinity" \/ b.kind = "Infinity" -> Infinity
    [] OTHER -> Num(IF a.val >= b.val THEN a.val - b.val ELSE b.val - a.val)

\* a < n for a JavaScript number a and an integer literal n
LessThan(a, n) == a.kind = "number" /\ a.val < n

\* Math.floor of the non-negative rational num/den
MathFloor(num, den) == num \div den

\* Math.round of the non-negative rational num/den: nearest integer, halves up
MathRound(num, den) == (2 * num + den) \div (2 * den)

(***************************************************************************)
(* The assessment: dimensions, letters, questions.                         *)
(***************************************************************************)
DimensionSet == {"EI", "SN", "TF", "JP"}

\* groupToValues: the two option values of a question of each group
groupToValues == [EI |-> <<"E", "I">>, SN |-> <<"S", "N">>,
                  TF |-> <<"T", "F">>, JP |-> <<"J", "P">>]

\* keys of the counts object literal of calculateResult
Letters == {"E", "I", "S", "N", "T", "F", "J", "P"}

\* a key counts inherits from Object.prototype: "constructor" in counts is true
ProtoKeys == {"constructor"}

\* what an arbitrary caller may put in the answers array
AnswerValues == Letters \cup ProtoKeys \cup {"X", "e"}

\* the questions of an assessment, as the sequence of their groups:
\* n questions of dimension long and one question of every other dimension
RECURSIVE Repeat(_, _)
Repeat(g, n) == IF n = 0 THEN <<>> ELSE <<g>> \o Repeat(g, n - 1)

QuestionGroups(long, n) ==
  Repeat("EI", IF long = "EI" THEN n ELSE 1) \o
  Repeat("SN", IF long = "SN" THEN n ELSE 1) \o
  Repeat("TF", IF long = "TF" THEN n ELSE 1) \o
  Repeat("JP", IF long = "JP" THEN n ELSE 1)

Assessments == {QuestionGroups(long, n) : long \in DimensionSet, n \in 1..MaxDimQ}

\* AssessmentPage: questionCounts[q.group]++ over the assessment's questions
PageQuestionCounts(qs) ==
  [kind |-> "object",
   EI |-> Num(Cardinality({i \in 1..Len(qs) : qs[i] = "EI"})),
   SN |-> Num(Cardinality({i \in 1..Len(qs) : qs[i] = "SN"})),
   TF |-> Num(Cardinality({i \in 1..Len(qs) : qs[i] = "TF"})),
   JP |-> Num(Cardinality({i \in 1..Len(qs) : qs[i] = "JP"}))]

\* a denominator in the body of an arbitrary request
Denominators == {Undefined} \cup {Num(n) : n \in 0..MaxQ}

\* the questionCounts field in the body of an arbitrary request
BodyQuestionCounts ==
  {Undefined} \cup
  {[kind |-> "object", EI |-> a, SN |-> b, TF |-> c, JP |-> d] :
     a \in Denominators, b \in Denominators,
     c \in Denominators, d \in Denominators}

(***************************************************************************)
(* Assessment.calculateResult                                              *)
(***************************************************************************)
\* const counts = { E: 0, ..., P: 0 }: the own keys hold 0, and every key of
\* Object.prototype is visible through the object as well
counts0 ==
  [k \in Letters \cup ProtoKeys |->
     IF k \in Letters THEN Num(0) ELSE [kind |-> "function"]]

\* value in counts
InCounts(value, counts) == value \in DOMAIN counts

\* counts[value]++ : a number is incremented, anything else becomes NaN
Increment(x) == IF x.kind = "number" THEN Num(x.val + 1) ELSE NaN

\* answers.forEach(value => { if (value in counts) counts[value]++ })
RECURSIVE TallyFrom(_, _, _)
TallyFrom(answers, i, counts) ==
  IF i > Len(answers) THEN counts
  ELSE TallyFrom(answers, i + 1,
         IF InCounts(answers[i], counts)
         THEN [counts EXCEPT ![answers[i]] = Increment(@)]
         ELSE counts)

\* String.prototype.toUpperCase on the values of the model
ToUpperCase(value) ==
  CASE value = "e" -> "E"
    [] value = "constructor" -> "CONSTRUCTOR"
    [] OTHER -> value

\* a tally that normalises the case of every answer first
TallyIgnoringCase(answers) ==
  TallyFrom([i \in 1..Len(answers) |-> ToUpperCase(answers[i])], 1, counts0)

Tally(answers) == TallyFrom(answers, 1, counts0)

\* Math.round((count / denominator) * 100); count is a tally, so a number
Percentage(count, denominator) ==
  CASE denominator.kind = "undefined" -> NaN
    [] denominator.val = 0 -> IF count.val = 0 THEN NaN ELSE Infinity
    [] OTHER -> Num(MathRound(count.val * 100, denominator.val))

Scores(counts, qc) ==
  [extrovert  |-> Percentage(counts["E"], qc.EI),
   introvert  |-> Percentage(counts["I"], qc.EI),
   sensory    |-> Percentage(counts["S"], qc.SN),
   intuitive  |-> Percentage(counts["N"], qc.SN),
   thinking   |-> Percentage(counts["T"], qc.TF),
   feeling    |-> Percentage(counts["F"], qc.TF),
   judging    |-> Percentage(counts["J"], qc.JP),
   perceiving |-> Percentage(counts["P"], qc.JP)]

\* the dimensions table of getAlternativeTypes
dimensions ==
  << [pair |-> <<"extrovert", "introvert">>, letters |-> <<"E", "I">>, index |-> 1],
     [pair |-> <<"sensory", "intuitive">>,   letters |-> <<"S", "N">>, index |-> 2],
     [pair |-> <<"thinking", "feeling">>,    letters |-> <<"T", "F">>, index |-> 3],
     [pair |-> <<"judging", "perceiving">>,  letters |-> <<"J", "P">>, index |-> 4] >>

\* a > b on JavaScript numbers that are never negative here
Gt(a, b) ==
  CASE a.kind = "NaN" \/ b.kind = "NaN" -> FALSE
    [] b.kind = "Infinity" -> FALSE
    [] a.kind = "Infinity" -> TRUE
    [] OTHER -> a.val > b.val

\* the choice of a letter with > in place of >=
TypeLetterStrict(scores, dim) ==
  IF Gt(scores[dim.pair[1]], scores[dim.pair[2]])
  THEN dim.letters[1] ELSE dim.letters[2]

\* scores.first >= scores.second ? firstLetter : secondLetter
TypeLetter(scores, dim) ==
  IF Geq(scores[dim.pair[1]], scores[dim.pair[2]])
  THEN dim.letters[1] ELSE dim.letters[2]

\* the type with the TF line pasted over the JP line
PersonalityTypePasted(scores) ==
  << TypeLetter(scores, dimensions[1]), TypeLetter(scores, dimensions[2]),
     TypeLetter(scores, dimensions[3]), TypeLetter(scores, dimensions[3]) >>

\* the four letters in the order EI, SN, TF, JP (before join(''))
PersonalityType(scores) ==
  << TypeLetter(scores, dimensions[1]), TypeLetter(scores, dimensions[2]),
     TypeLetter(scores, dimensions[3]), TypeLetter(scores, dimensions[4]) >>

closeThreshold == 20

\* the filter predicate with diff <= closeThreshold
IsCloseInclusive(scores, dim) ==
  LET diff == AbsDiff(scores[dim.pair[1]], scores[dim.pair[2]])
  IN  diff.kind = "number" /\ diff.val <= closeThreshold

\* the filter predicate of closeDimensions: diff < closeThreshold
IsClose(scores, dim) ==
  LessThan(AbsDiff(scores[dim.pair[1]], scores[dim.pair[2]]), closeThreshold)

\* dimensions.filter(...): the close dimensions, in table order
closeDimensions(scores) == SelectSeq(dimensions, LAMBDA dim : IsClose(scores, dim))

\* closeDimensions.slice(0, 2)
Slice2(s) == SubSeq(s, 1, IF Len(s) < 2 THEN Len(s) ELSE 2)

\* dim.letters.find(l => l !== currentLetter)
alternateLetter(dim, currentLetter) ==
  IF dim.letters[1] # currentLetter THEN dim.letters[1] ELSE dim.letters[2]

\* one pass of the forEach: a fresh copy of primaryType with one letter changed
FlipOne(primaryType, dim) ==
  [primaryType EXCEPT ![dim.index] = alternateLetter(dim, primaryType[dim.index])]

\* typeArray split once, outside the forEach: the second alternative keeps
\* the first flip
getAlternativeTypesSharedArray(scores, primaryType) ==
  LET close == Slice2(closeDimensions(scores))
  IN  [k \in 1..Len(close) |->
         IF k = 1 THEN FlipOne(primaryType, close[1])
         ELSE FlipOne(FlipOne(primaryType, close[1]), close[2])]

getAlternativeTypes(scores, primaryType) ==
  LET close == Slice2(closeDimensions(scores))
  IN  [k \in 1..Len(close) |-> FlipOne(primaryType, close[k])]

\* alternatives[k] || null
OrNull(alternatives, k) ==
  IF k <= Len(alternatives) THEN Str(alternatives[k]) ELSE Null

\* calculateResult after the tally: scores, type, alternatives, return value
ResultFromCounts(counts, qc) ==
  IF qc.kind = "undefined"
  THEN [kind |-> "throw", error |-> "TypeError"]
  ELSE LET scores == Scores(counts, qc)
           type == PersonalityType(scores)
           alternatives == getAlternativeTypes(scores, type)
       IN  [kind |-> "return",
            scores |-> scores,
            personalityType |-> Str(type),
            alternativeType1 |-> OrNull(alternatives, 1),
            alternativeType2 |-> OrNull(alternatives, 2)]

calculateResult(answers, qc) == ResultFromCounts(Tally(answers), qc)

(***************************************************************************)
(* Result schema checks on what calculateResult returns.                   *)
(***************************************************************************)
ScoreNames == {"extrovert", "introvert", "sensory", "intuitive",
               "thinking", "feeling", "judging", "perceiving"}

\* pre('save'): Math.abs(score1 + score2 - 100) > 0.01 throws
PairAddsUp(s1, s2) == IsFinite(s1) /\ IsFinite(s2) /\ s1.val + s2.val = 100

ResultPreSaveAccepts(scores) ==
  \A k \in 1..4 :
    PairAddsUp(scores[dimensions[k].pair[1]], scores[dimensions[k].pair[2]])

\* scores.*: { type: Number, min: 0, max: 100 }
ScoreInSchemaRange(s) == IsFinite(s) /\ s.val >= 0 /\ s.val <= 100

UpperCase == {"A", "B", "C", "D", "E", "F", "G", "H", "I", "J", "K", "L", "M",
              "N", "O", "P", "Q", "R", "S", "T", "U", "V", "W", "X", "Y", "Z"}

\* personalityType: match /^[A-Z]{4}$/
MatchesTypePattern(s) ==
  s.kind = "string" /\ Len(s.chars) = 4 /\ \A i \in 1..4 : s.chars[i] \in UpperCase

(***************************************************************************)
(* The older calculateResult, with hard-coded denominators, and the        *)
(* getAlternativeTypes that goes with it.                                  *)
(***************************************************************************)
\* every denominator 20, as the comment above the scores says
ScoresAllTwenty(counts) ==
  [extrovert  |-> Percentage(counts["E"], Num(20)),
   introvert  |-> Percentage(counts["I"], Num(20)),
   sensory    |-> Percentage(counts["S"], Num(20)),
   intuitive  |-> Percentage(counts["N"], Num(20)),
   thinking   |-> Percentage(counts["T"], Num(20)),
   feeling    |-> Percentage(counts["F"], Num(20)),
   judging    |-> Percentage(counts["J"], Num(20)),
   perceiving |-> Percentage(counts["P"], Num(20))]

\* Math.round((counts.E / 10) * 100), ..., Math.round((counts.P / 20) * 100)
ScoresHardCoded(counts) ==
  [extrovert  |-> Percentage(counts["E"], Num(10)),
   introvert  |-> Percentage(counts["I"], Num(10)),
   sensory    |-> Percentage(counts["S"], Num(20)),
   intuitive  |-> Percentage(counts["N"], Num(20)),
   thinking   |-> Percentage(counts["T"], Num(20)),
   feeling    |-> Percentage(counts["F"], Num(20)),
   judging    |-> Percentage(counts["J"], Num(20)),
   perceiving |-> Percentage(counts["P"], Num(20))]

closeThresholdOlder == 10

\* the filter predicate of the older closeDimensions
IsCloseOlder(scores, dim) ==
  LessThan(AbsDiff(scores[dim.pair[1]], scores[dim.pair[2]]), closeThresholdOlder)

closeDimensionsOlder(scores) ==
  SelectSeq(dimensions, LAMBDA dim : IsCloseOlder(scores, dim))

getAlternativeTypesOlder(scores, primaryType) ==
  LET close == Slice2(closeDimensionsOlder(scores))
  IN  [k \in 1..Len(close) |-> FlipOne(primaryType, close[k])]

\* the older calculateResult after the tally; questionCounts is not read
ResultFromCountsOlder(counts, qc) ==
  LET scores == ScoresHardCoded(counts)
      type == PersonalityType(scores)
      alternatives == getAlternativeTypesOlder(scores, type)
  IN  [kind |-> "return",
       scores |-> scores,
       personalityType |-> Str(type),
       alternativeType1 |-> OrNull(alternatives, 1),
       alternativeType2 |-> OrNull(alternatives, 2)]

\* const counts = { EI: 10, SN: 20, TF: 20, JP: 20 } of testCalculation
TestCounts ==
  [kind |-> "object", EI |-> Num(10), SN |-> Num(20), TF |-> Num(20), JP |-> Num(20)]

(***************************************************************************)
(* State.                                                                  *)
(***************************************************************************)
VARIABLES
  via,             \* "page": sent by AssessmentClient; "api": any other caller
  questions,       \* groups of the questions of the stored assessment
  questionCounts,  \* body.questionCounts
  answers,         \* body.answers
  pc,              \* "request": body being assembled; "scored": calculateResult called
  result           \* what calculateResult did

vars == <<via, questions, questionCounts, answers, pc, result>>

\* State of the other parts of the application, each with a specification of
\* its own further down.
VARIABLES
  callLog,         \* calculateResult calls made so far: inputs and outcome
  lastCounts       \* the counts object the most recent call left behind

callVars == <<callLog, lastCounts>>

VARIABLES
  resultsDb,       \* the results collection, in insertion order
  rpc,             \* per createNewResult call slot: "idle", "updateMany", "create"
  rargs,           \* per call slot: the arguments of the call in progress
  rstarted,        \* number of createNewResult calls started so far
  clean            \* per user: every call so far was successful and alone

resultVars == <<resultsDb, rpc, rargs, rstarted, clean>>

VARIABLES
  MONGODB_URI,     \* process.env.MONGODB_URI
  cached,          \* the module's cache: conn and promise
  attempts,        \* the promises mongoose.connect returned, in call order
  cpc,             \* per connectDB caller: "idle", "awaiting", "returned", "threw"
  cawait,          \* per caller: the attempt its await is registered on
  cout,            \* per caller: the value returned or the error thrown
  microtasks,      \* the microtask queue of the event loop
  running          \* some job (task or microtask) is executing application code

connectVars ==
  <<MONGODB_URI, cached, attempts, cpc, cawait, cout, microtasks, running>>

\* connectDB has never been called
ConnectIdle ==
  /\ MONGODB_URI = Undefined
  /\ cached = [conn |-> Null, promise |-> Null]
  /\ attempts = <<>> /\ cpc = <<>> /\ cawait = <<>> /\ cout = <<>>
  /\ microtasks = <<>> /\ running = FALSE

VARIABLES
  user,            \* the User document in memory (this)
  stored,          \* the same document as last saved in the users collection
  now,             \* the local calendar day the clock shows
  uret             \* the most recent User method call and how it ended

userVars == <<user, stored, now, uret>>

\* no User document has been created
UserIdle ==
  /\ user = [kind |-> "none"] /\ stored = [kind |-> "none"]
  /\ now = 0 /\ uret = [kind |-> "none"]

VARIABLES
  gresults,        \* the documents of the Result schema with guestId saved so far
  gsave            \* the most recent save() of such a document and how it ended

ownerVars == <<gresults, gsave>>

\* no Result document of the schema with guestId has been made
OwnerIdle == gresults = <<>> /\ gsave = [kind |-> "none"]

VARIABLES
  submitted,       \* number of requests POST /api/assessment/submit has answered
  submitLog,       \* the most recent request and the status it was answered with
  usersCreated,    \* User documents the route has created
  resultsCreated,  \* Result documents the route has created
  scoringsDone     \* calls of Assessment.calculateResult the route has made

submitVars == <<submitted, submitLog, usersCreated, resultsCreated, scoringsDone>>

\* the route has not been requested
SubmitIdle ==
  /\ submitted = 0 /\ submitLog = [kind |-> "none"]
  /\ usersCreated = 0 /\ resultsCreated = 0 /\ scoringsDone = 0

VARIABLES
  page,            \* "assessment": AssessmentClient is mounted; "elsewhere": it is not
  showInstructions,\* useState(true)
  currentQuestion, \* useState(0)
  clientAnswers,   \* the answers state of AssessmentClient: question id -> value
  isSubmitting,    \* useState(false)
  sessionStorage,  \* the item stored under assessment_<id>, or null
  fetching,        \* the body of the submit request awaiting its response, or none
  pushed,          \* the route router.push was called with and not yet reached
  lastEvent        \* how the most recent handleSubmit call or response ended

clientVars ==
  <<page, showInstructions, currentQuestion, clientAnswers, isSubmitting,
    sessionStorage, fetching, pushed, lastEvent>>

\* the assessment page has not been opened
ClientIdle ==
  /\ page = "elsewhere" /\ showInstructions = TRUE /\ currentQuestion = 0
  /\ clientAnswers = <<>> /\ isSubmitting = FALSE /\ sessionStorage = Null
  /\ fetching = [kind |-> "none"] /\ pushed = "none" /\ lastEvent = "none"

VARIABLES
  tallied,         \* counts after the forEach over the answers given so far
  answered,        \* how many answers that is
  current,         \* what calculateResult of Assessment.ts returns for them
  older            \* what the calculateResult with hard-coded denominators returns

variantVars == <<tallied, answered, current, older>>

\* both variants called with no answers and the counts of testCalculation
VariantsIdle ==
  /\ tallied = counts0 /\ answered = 0
  /\ current = ResultFromCounts(counts0, TestCounts)
  /\ older = ResultFromCountsOlder(counts0, TestCounts)

\* no createNewResult call has been made
ResultsIdle ==
  /\ resultsDb = <<>> /\ rpc = <<>> /\ rargs = <<>>
  /\ rstarted = 0 /\ clean = <<>>

\* no call of calculateResult has been made
CallsIdle == callLog = <<>> /\ lastCounts = [kind |-> "none"]

\* what each specification leaves alone
outsideScoring == <<callVars, resultVars, connectVars, userVars, ownerVars,
    submitVars,
    clientVars,
    variantVars>>
outsideCalls == <<vars, resultVars, connectVars, userVars, ownerVars,
    submitVars,
    clientVars,
    variantVars>>
outsideResults == <<vars, callVars, connectVars, userVars, ownerVars,
    submitVars,
    clientVars,
    variantVars>>
outsideConnect == <<vars, callVars, resultVars, userVars, ownerVars,
    submitVars,
    clientVars,
    variantVars>>
outsideUser == <<vars, callVars, resultVars, connectVars, ownerVars,
    submitVars,
    clientVars,
    variantVars>>
outsideOwner == <<vars, callVars, resultVars, connectVars, userVars,
    submitVars,
    clientVars,
    variantVars>>
outsideSubmit ==
  <<vars, callVars, resultVars, connectVars, userVars, ownerVars,
    clientVars,
    variantVars>>
outsideClient ==
  <<vars, callVars, resultVars, connectVars, userVars, ownerVars, submitVars,
    variantVars>>
outsideVariants ==
  <<vars, callVars, resultVars, connectVars, userVars, ownerVars, submitVars,
    clientVars>>
OutsideScoringIdle ==
  CallsIdle /\ ResultsIdle /\ ConnectIdle /\ UserIdle /\ OwnerIdle /\ SubmitIdle /\ ClientIdle /\ VariantsIdle

NoResult == [kind |-> "none"]

Init ==
  /\ OutsideScoringIdle
  /\ answers = <<>>
  /\ pc = "request"
  /\ result = NoResult
  /\ \/ /\ via = "page"
        /\ questions \in Assessments
        /\ questionCounts = PageQuestionCounts(questions)
     \/ /\ via = "api"
        /\ questions = QuestionGroups("EI", 1)
        /\ questionCounts \in BodyQuestionCounts

\* AssessmentClient: the next question is answered with one of its two options
handleAnswer(value) ==
  /\ via = "page"
  /\ pc = "request"
  /\ Len(answers) < Len(questions)
  /\ \E k \in 1..2 : value = groupToValues[questions[Len(answers) + 1]][k]
  /\ answers' = Append(answers, value)
  /\ UNCHANGED <<via, questions, questionCounts, pc, result>>
  /\ UNCHANGED outsideScoring

\* any other caller: one more entry in the answers array of the body
BodyAnswer(value) ==
  /\ via = "api"
  /\ pc = "request"
  /\ Len(answers) < MaxLen
  /\ answers' = Append(answers, value)
  /\ UNCHANGED <<via, questions, questionCounts, pc, result>>
  /\ UNCHANGED outsideScoring

\* POST /api/assessment/submit up to the call of calculateResult; the page
\* submits only when every question is answered
POST ==
  /\ pc = "request"
  /\ via = "page" => Len(answers) = Len(questions)
  /\ result' = calculateResult(answers, questionCounts)
  /\ pc' = "scored"
  /\ UNCHANGED <<via, questions, questionCounts, answers>>
  /\ UNCHANGED outsideScoring

Next ==
  \/ \E value \in Letters : handleAnswer(value)
  \/ \E value \in AnswerValues : BodyAnswer(value)
  \/ POST

Spec == Init /\ [][Next]_vars

TypeOK ==
  /\ via \in {"page", "api"}
  /\ pc \in {"request", "scored"}
  /\ result.kind \in {"none", "return", "throw"}
  /\ (pc = "scored") = (result.kind # "none")

(***************************************************************************)
(* Vocabulary of the properties, stated on the inputs and the result and   *)
(* not through the operators that compute the result.                      *)
(***************************************************************************)
Returned == pc = "scored" /\ result.kind = "return"

\* number of entries of the answers array equal to a letter
Count(letter) == Cardinality({i \in 1..Len(answers) : answers[i] = letter})

\* the two letters and the two score fields of the k-th dimension
FirstLetter == <<"E", "S", "T", "J">>
SecondLetter == <<"I", "N", "F", "P">>
FirstScore == <<"extrovert", "sensory", "thinking", "judging">>
SecondScore == <<"introvert", "intuitive", "feeling", "perceiving">>

\* the denominator of the k-th dimension in the request (questionCounts an object)
Denominator(k) ==
  CASE k = 1 -> questionCounts.EI
    [] k = 2 -> questionCounts.SN
    [] k = 3 -> questionCounts.TF
    [] k = 4 -> questionCounts.JP

PositiveDenominators ==
  /\ questionCounts.kind = "object"
  /\ \A k \in 1..4 : Denominator(k).kind = "number" /\ Denominator(k).val >= 1

AllRecognized == \A i \in 1..Len(answers) : answers[i] \in Letters

TalliesMatchDenominators ==
  \A k \in 1..4 : Count(FirstLetter[k]) + Count(SecondLetter[k]) = Denominator(k).val

\* C1: when every answer is a recognized letter and each dimension's tally
\* equals its (positive) denominator, each complementary pair of the returned
\* scores sums to exactly 100, so the Result pre-save check accepts them.
C1_PairsSumTo100 ==
  (pc = "scored" /\ AllRecognized /\ PositiveDenominators /\ TalliesMatchDenominators)
    => /\ result.kind = "return"
       /\ ResultPreSaveAccepts(result.scores)

\* percentage a strictly higher than percentage b, as numbers are ordered
StrictlyHigher(a, b) ==
  \/ a.kind = "Infinity" /\ b.kind = "number"
  \/ a.kind = "number" /\ b.kind = "number" /\ a.val > b.val

EqualPercentages(a, b) ==
  \/ a.kind = "Infinity" /\ b.kind = "Infinity"
  \/ a.kind = "number" /\ b.kind = "number" /\ a.val = b.val

\* C2: in each dimension the primary type carries the letter with the strictly
\* higher percentage, and the first letter of the pair (E, S, T, J) when the
\* two percentages are equal; the letters stand in the order EI, SN, TF, JP.
C2_HigherLetterFirstOnTie ==
  Returned =>
    \A k \in 1..4 :
      LET s1 == result.scores[FirstScore[k]]
          s2 == result.scores[SecondScore[k]]
          letter == result.personalityType.chars[k]
      IN  /\ StrictlyHigher(s1, s2) => letter = FirstLetter[k]
          /\ StrictlyHigher(s2, s1) => letter = SecondLetter[k]
          /\ EqualPercentages(s1, s2) => letter = FirstLetter[k]

\* a 50/50 tie on EI resolved to E next to a dimension won by its second letter
C2_Witness ==
  /\ Returned
  /\ result.scores.extrovert = Num(50) /\ result.scores.introvert = Num(50)
  /\ result.personalityType.chars[1] = "E"
  /\ result.scores.intuitive = Num(100) /\ result.scores.sensory = Num(0)
  /\ result.personalityType.chars[2] = "N"

\* C3: the returned personalityType has exactly 4 characters, the k-th one a
\* letter of the k-th dimension's pair, so it matches the Result schema pattern.
C3_TypeWellFormed ==
  Returned =>
    /\ result.personalityType.kind = "string"
    /\ Len(result.personalityType.chars) = 4
    /\ \A k \in 1..4 :
         result.personalityType.chars[k] \in {FirstLetter[k], SecondLetter[k]}
    /\ MatchesTypePattern(result.personalityType)

\* a type returned although no percentage is a finite number
C3_Witness ==
  /\ Returned
  /\ \A name \in ScoreNames : ~IsFinite(result.scores[name])
  /\ result.personalityType = Str(<<"I", "N", "F", "P">>)

\* s is 100c/n rounded to the nearest integer, an exact half rounded up
IsRounded(s, c, n) ==
  /\ 2 * (s * n - 100 * c) <= n
  /\ 2 * (100 * c - s * n) < n

\* no returned alternative differs from the primary type at position k
NotFlipped(k) ==
  /\ result.alternativeType1.kind = "string" =>
       result.alternativeType1.chars[k] = result.personalityType.chars[k]
  /\ result.alternativeType2.kind = "string" =>
       result.alternativeType2.chars[k] = result.personalityType.chars[k]

C5_ScoresInRange ==
  (pc = "scored" /\ Len(answers) > 0 /\ PositiveDenominators) =>
    /\ result.kind = "return"
    /\ \A name \in ScoreNames : ScoreInSchemaRange(result.scores[name])

\* the dimensions whose two returned scores differ by less than the threshold
CloseSet ==
  {k \in 1..4 :
     LET s1 == result.scores[FirstScore[k]]
         s2 == result.scores[SecondScore[k]]
     IN  /\ s1.kind = "number" /\ s2.kind = "number"
         /\ s1.val - s2.val < closeThreshold
         /\ s2.val - s1.val < closeThreshold}

NonNullAlternatives ==
  (IF result.alternativeType1.kind = "null" THEN 0 ELSE 1) +
  (IF result.alternativeType2.kind = "null" THEN 0 ELSE 1)

\* C6: the number of non-null alternative types is 0, 1 or 2 and never exceeds
\* the number of dimensions whose scores differ by less than the threshold;
\* alternativeType2 is non-null only if alternativeType1 is.
C6_AlternativeCount ==
  Returned =>
    /\ NonNullAlternatives \in 0..2
    /\ NonNullAlternatives <= Cardinality(CloseSet)
    /\ result.alternativeType2.kind # "null" => result.alternativeType1.kind # "null"

\* three dimensions are close and exactly two alternatives are returned
C6_Witness ==
  /\ Returned
  /\ Cardinality(CloseSet) >= 3
  /\ NonNullAlternatives = 2

Least(S) == CHOOSE x \in S : \A y \in S : x <= y

\* the primary type with the letter of dimension k replaced by its complement
FlippedAt(k) ==
  [result.personalityType.chars EXCEPT
     ![k] = IF @ = FirstLetter[k] THEN SecondLetter[k] ELSE FirstLetter[k]]

\* C7: the k-th alternative is the primary type with exactly the letter of the
\* k-th close dimension (in the order EI, SN, TF, JP) replaced by its
\* complement; flips are never combined; when EI is close the first
\* alternative is the primary type with its EI letter flipped.
C7_AlternativesFlipOneCloseDimension ==
  Returned =>
    /\ result.alternativeType1 =
         IF CloseSet = {} THEN Null ELSE Str(FlippedAt(Least(CloseSet)))
    /\ result.alternativeType2 =
         IF Cardinality(CloseSet) < 2 THEN Null
         ELSE Str(FlippedAt(Least(CloseSet \ {Least(CloseSet)})))
    /\ 1 \in CloseSet => result.alternativeType1 = Str(FlippedAt(1))

\* EI is decided, SN, TF and JP are close: SN and TF are flipped, one each
C7_Witness ==
  /\ Returned
  /\ CloseSet = {2, 3, 4}
  /\ result.personalityType = Str(<<"E", "S", "T", "J">>)
  /\ result.alternativeType1 = Str(<<"E", "N", "T", "J">>)
  /\ result.alternativeType2 = Str(<<"E", "S", "F", "J">>)

\* the answers array without its unrecognized entries
RecognizedOnly == SelectSeq(answers, LAMBDA value : value \in Letters)

\* C8: an answer that is none of E, I, S, N, T, F, J, P raises no error and is
\* excluded from every tally: the result is the result for the same array
\* with the unrecognized entries removed.
C8_UnrecognizedIgnored ==
  pc = "scored" =>
    /\ result = calculateResult(RecognizedOnly, questionCounts)
    /\ questionCounts.kind = "object" => result.kind = "return"

\* an unrecognized entry before a recognized one, and the E is still 1 of 2
C8_Witness ==
  /\ Returned
  /\ Len(answers) = 2
  /\ answers[1] \in {"X", "e", "constructor"}
  /\ answers[2] = "E"
  /\ result.scores.extrovert = Num(50)

\* C9: when the answers array is empty, scoring fails with an error and
\* returns no scores, no primary type and no alternatives (stated for the
\* requests whose denominators are all usable, so that the empty array is the
\* only thing wrong with the input).
C9_EmptyAnswersFail ==
  (pc = "scored" /\ answers = <<>> /\ PositiveDenominators) => result.kind = "throw"

\* dimension k has answers and no usable denominator
TallyWithoutDenominator(k) ==
  /\ Count(FirstLetter[k]) + Count(SecondLetter[k]) > 0
  /\ \/ questionCounts.kind = "undefined"
     \/ Denominator(k).kind = "undefined"
     \/ Denominator(k) = Num(0)

\* C10: when a dimension has a nonzero tally and its denominator is zero or
\* missing, scoring fails with an error instead of returning a result.
C10_ZeroDenominatorFails ==
  (pc = "scored" /\ \E k \in 1..4 : TallyWithoutDenominator(k))
    => result.kind = "throw"

(***************************************************************************)
(* Repeated calls of Assessment.calculateResult in one process.            *)
(***************************************************************************)
\* number of calls followed
MaxCalls == 3

\* the scoring state when only other parts of the application run
ScoringIdle ==
  /\ via = "api" /\ questions = <<>> /\ questionCounts = Undefined
  /\ answers = <<>> /\ pc = "idle" /\ result = NoResult

AllCounts(n) == [kind |-> "object", EI |-> n, SN |-> n, TF |-> n, JP |-> n]

\* the arguments of the calls
CallAnswers == {<<>>, <<"E">>, <<"E", "I", "N", "X">>}
CallQuestionCounts == {Undefined, AllCounts(Num(0)), AllCounts(Num(2))}

\* the counts object a call starts from when the previous call's object is
\* kept across calls
ReusedCounts(previous) == IF previous.kind = "none" THEN counts0 ELSE previous.counts

\* const counts = { E: 0, ... } inside the function: every call allocates its
\* own object, whatever an earlier call left behind
NewCounts(previous) == counts0

SpecCallsInit ==
  /\ ScoringIdle
  /\ VariantsIdle
  /\ ClientIdle
  /\ SubmitIdle
  /\ CallsIdle
  /\ ResultsIdle
  /\ ConnectIdle
  /\ UserIdle
  /\ OwnerIdle

\* one call calculateResult(a, qc), start to return
Call(a, qc) ==
  /\ Len(callLog) < MaxCalls
  /\ LET counts == TallyFrom(a, 1, NewCounts(lastCounts))
     IN  /\ callLog' = Append(callLog, [answers |-> a, questionCounts |-> qc,
                                        result |-> ResultFromCounts(counts, qc)])
         /\ lastCounts' = [kind |-> "object", counts |-> counts]
  /\ UNCHANGED outsideCalls

SpecCallsNext == \E a \in CallAnswers, qc \in CallQuestionCounts : Call(a, qc)

allVars == <<vars, outsideScoring>>

SpecCalls == SpecCallsInit /\ [][SpecCallsNext]_allVars

\* C11: calculateResult keeps no hidden state: two calls with identical
\* answers and questionCounts return identical scores, primary type and
\* alternatives, whatever calls were made in between.
C11_SameInputSameResult ==
  \A i, j \in 1..Len(callLog) :
    (callLog[i].answers = callLog[j].answers /\
     callLog[i].questionCounts = callLog[j].questionCounts)
      => callLog[i].result = callLog[j].result

\* the first and the third call have the same arguments, the second has others,
\* and the calls returned scores
C11_Witness ==
  /\ Len(callLog) = 3
  /\ callLog[1].answers = <<"E", "I", "N", "X">>
  /\ callLog[1].questionCounts = AllCounts(Num(2))
  /\ callLog[2].answers = <<"E">>
  /\ callLog[3].answers = callLog[1].answers
  /\ callLog[3].questionCounts = callLog[1].questionCounts
  /\ callLog[3].result.kind = "return"
  /\ callLog[3].result.scores.extrovert = Num(50)

(***************************************************************************)
(* The results collection: Result.createNewResult and getActiveResult.     *)
(* createNewResult awaits updateMany and then create, so calls interleave  *)
(* between the two database operations.                                    *)
(***************************************************************************)
\* createNewResult calls that may be in progress at once
MaxProcs == 2
\* createNewResult calls followed
MaxCreates == 3

Procs == 1..MaxProcs
UserIds == {"u1", "u2"}

\* resultData as POST builds it from what calculateResult returned
ResultDataOf(a, qc) ==
  LET r == calculateResult(a, qc)
  IN  [answers |-> a, scores |-> r.scores, personalityType |-> r.personalityType,
       alternativeType1 |-> r.alternativeType1,
       alternativeType2 |-> r.alternativeType2]

\* two submissions the schema accepts and an empty one it rejects
ResultInputs ==
  {ResultDataOf(<<"E", "S", "T", "J">>, AllCounts(Num(1))),
   ResultDataOf(<<"I", "N", "F", "P">>, AllCounts(Num(1))),
   ResultDataOf(<<>>, AllCounts(Num(1)))}

\* validation run by create: answers validator, scores min/max, personalityType
\* match, and the pre('save') hook
ResultValid(data) ==
  /\ Len(data.answers) > 0
  /\ \A name \in ScoreNames : ScoreInSchemaRange(data.scores[name])
  /\ MatchesTypePattern(data.personalityType)
  /\ ResultPreSaveAccepts(data.scores)

\* updateMany({ isActive: true }, { $set: { isActive: false } }), no userId
MarkAllInactive(db, userId) ==
  [i \in 1..Len(db) |-> [db[i] EXCEPT !.isActive = FALSE]]

\* updateMany({ userId, isActive: true }, { $set: { isActive: false } })
MarkInactive(db, userId) ==
  [i \in 1..Len(db) |->
     IF db[i].userId = userId /\ db[i].isActive
     THEN [db[i] EXCEPT !.isActive = FALSE] ELSE db[i]]

\* create({ userId, assessmentId, ...resultData, isActive: true })
InsertResult(db, userId, data) ==
  Append(db, [id |-> Len(db) + 1, userId |-> userId, data |-> data, isActive |-> TRUE])

\* findOne({ userId }): the first result of the user, active or not
getAnyResult(db, userId) ==
  IF \E i \in 1..Len(db) : db[i].userId = userId
  THEN db[CHOOSE i \in 1..Len(db) :
            /\ db[i].userId = userId
            /\ \A j \in 1..(i - 1) : db[j].userId # userId]
  ELSE Null

\* findOne({ userId, isActive: true }): the first match in the collection, or null
getActiveResult(db, userId) ==
  IF \E i \in 1..Len(db) : db[i].userId = userId /\ db[i].isActive
  THEN db[CHOOSE i \in 1..Len(db) :
            /\ db[i].userId = userId /\ db[i].isActive
            /\ \A j \in 1..(i - 1) : ~(db[j].userId = userId /\ db[j].isActive)]
  ELSE Null

NoArgs == [kind |-> "none"]

\* a call for the user is between its start and its return or throw
InFlight(userId) ==
  \E p \in Procs : rpc[p] # "idle" /\ rargs[p].userId = userId

SpecResultsInit ==
  /\ ScoringIdle
  /\ VariantsIdle
  /\ ClientIdle
  /\ SubmitIdle
  /\ CallsIdle
  /\ ConnectIdle
  /\ UserIdle
  /\ OwnerIdle
  /\ resultsDb = <<>>
  /\ rpc = [p \in Procs |-> "idle"]
  /\ rargs = [p \in Procs |-> NoArgs]
  /\ rstarted = 0
  /\ clean = [u \in UserIds |-> TRUE]

\* createNewResult(userId, assessmentId, resultData) is called
StartCreateNewResult(p, userId, data) ==
  /\ rpc[p] = "idle"
  /\ rstarted < MaxCreates
  /\ rstarted' = rstarted + 1
  /\ rpc' = [rpc EXCEPT ![p] = "updateMany"]
  /\ rargs' = [rargs EXCEPT ![p] = [kind |-> "args", userId |-> userId, data |-> data]]
  /\ clean' = [clean EXCEPT ![userId] = @ /\ ~InFlight(userId)]
  /\ UNCHANGED resultsDb
  /\ UNCHANGED outsideResults

\* await this.updateMany(...)
UpdateManyStep(p) ==
  /\ rpc[p] = "updateMany"
  /\ resultsDb' = MarkInactive(resultsDb, rargs[p].userId)
  /\ rpc' = [rpc EXCEPT ![p] = "create"]
  /\ UNCHANGED <<rargs, rstarted, clean>>
  /\ UNCHANGED outsideResults

\* await this.create(...) and the return, or the validation error it throws
CreateStep(p) ==
  /\ rpc[p] = "create"
  /\ IF ResultValid(rargs[p].data)
     THEN /\ resultsDb' = InsertResult(resultsDb, rargs[p].userId, rargs[p].data)
          /\ UNCHANGED clean
     ELSE /\ UNCHANGED resultsDb
          /\ clean' = [clean EXCEPT ![rargs[p].userId] = FALSE]
  /\ rpc' = [rpc EXCEPT ![p] = "idle"]
  /\ rargs' = [rargs EXCEPT ![p] = NoArgs]
  /\ UNCHANGED rstarted
  /\ UNCHANGED outsideResults

SpecResultsNext ==
  \/ \E p \in Procs, userId \in UserIds, data \in ResultInputs :
       StartCreateNewResult(p, userId, data)
  \/ \E p \in Procs : UpdateManyStep(p)
  \/ \E p \in Procs : CreateStep(p)

SpecResults == SpecResultsInit /\ [][SpecResultsNext]_allVars

ActiveOf(userId) ==
  {i \in 1..Len(resultsDb) : resultsDb[i].userId = userId /\ resultsDb[i].isActive}

ResultsOf(userId) == {i \in 1..Len(resultsDb) : resultsDb[i].userId = userId}

NoCallInFlight == \A p \in Procs : rpc[p] = "idle"

\* C12: under any interleaving of createNewResult calls, once every started
\* call has finished at most one Result of each user is active.
C12_AtMostOneActive ==
  NoCallInFlight => \A u \in UserIds : Cardinality(ActiveOf(u)) <= 1

\* C17: a stored Result keeps its answers, scores, personalityType and
\* alternative types for ever; the only change a step makes to an existing
\* record is isActive from true to false, made by the updateMany of a call for
\* the record's own userId; records of every other user stay as they are and no
\* record is removed.
KeptOrDeactivated(i) ==
  \/ resultsDb'[i] = resultsDb[i]
  \/ /\ resultsDb[i].isActive
     /\ resultsDb'[i] = [resultsDb[i] EXCEPT !.isActive = FALSE]
     /\ \E p \in Procs :
          /\ rpc[p] = "updateMany"
          /\ rpc'[p] = "create"
          /\ rargs[p].userId = resultsDb[i].userId

C17_StoredResultsImmutable ==
  [][/\ Len(resultsDb') >= Len(resultsDb)
     /\ \A i \in 1..Len(resultsDb) : KeptOrDeactivated(i)]_allVars

\* a result of u1 was deactivated by a later call for u1 that ran after a
\* result of u2 had been stored, and the result of u2 is still active
C17_Witness ==
  \E i, j, k \in 1..Len(resultsDb) :
    /\ i < j /\ j < k
    /\ resultsDb[i].userId = "u1" /\ ~resultsDb[i].isActive
    /\ resultsDb[j].userId = "u2" /\ resultsDb[j].isActive
    /\ resultsDb[k].userId = "u1" /\ resultsDb[k].isActive
    /\ resultsDb[i].data # resultsDb[k].data

\* the most recently created result of a user who has one
LastOf(userId) ==
  CHOOSE i \in ResultsOf(userId) : \A j \in ResultsOf(userId) : j <= i

\* every call started for the user so far was successful and overlapped no
\* other call for the same user, and none is running
OnlySequentialCalls(userId) == clean[userId] /\ ~InFlight(userId)

\* C18: after non-overlapping successful createNewResult calls for a user
\* exactly one Result of the user is active, it is the most recently created
\* one and getActiveResult(userId) returns it; getActiveResult returns null for
\* a user with no result.
C18_ActiveIsMostRecent ==
  \A u \in UserIds :
    /\ ResultsOf(u) = {} => getActiveResult(resultsDb, u) = Null
    /\ (OnlySequentialCalls(u) /\ ResultsOf(u) # {}) =>
         /\ ActiveOf(u) = {LastOf(u)}
         /\ getActiveResult(resultsDb, u) = resultsDb[LastOf(u)]

\* two calls for u1 one after the other, and u2 without any result
C18_Witness ==
  /\ OnlySequentialCalls("u1")
  /\ Cardinality(ResultsOf("u1")) >= 2
  /\ ResultsOf("u2") = {}
  /\ getActiveResult(resultsDb, "u2") = Null

(***************************************************************************)
(* connectDB and the module's connection cache.  A call runs without       *)
(* interruption up to its await; what follows the await is a microtask     *)
(* queued when the awaited promise settles (at once if it has settled      *)
(* already).  The event loop runs one job at a time and takes microtasks   *)
(* in queue order.                                                         *)
(***************************************************************************)

\* connectDB callers followed (each calls once)
MaxCallers == 4
\* mongoose.connect invocations followed
MaxAttempts == 3
\* application microtasks waiting in the queue at one time
MaxJobs == 2

Callers == 1..MaxCallers

\* the mongoose module object, which mongoose.connect resolves to
Mongoose == [kind |-> "mongoose"]
Promise(id) == [kind |-> "promise", id |-> id]
\* the error attempt id was rejected with
ConnectError(id) == [kind |-> "error", message |-> "connect", attempt |-> id]
MissingUri ==
  [kind |-> "error",
   message |-> "Please define the MONGODB_URI environment variable inside .env.local"]

\* !MONGODB_URI
NoUri(v) == v = Undefined \/ v = Str(<<>>)

UriValues == {Undefined, Str(<<>>), Str(<<"m">>)}

ResumeJob(p) == [kind |-> "resume", caller |-> p]
AppJob == [kind |-> "app"]
\* the first microtask of the promise chain inside mongoose.connect
DriverJob(id) == [kind |-> "driver", attempt |-> id]

AppJobsQueued == Cardinality({i \in 1..Len(microtasks) : microtasks[i].kind = "app"})

\* catch (e) { cached.promise = null; ... }
ClearPromise(c) == [c EXCEPT !.promise = Null]

SpecConnectInit ==
  /\ ScoringIdle
  /\ VariantsIdle
  /\ ClientIdle
  /\ SubmitIdle
  /\ CallsIdle
  /\ ResultsIdle
  /\ UserIdle
  /\ OwnerIdle
  /\ MONGODB_URI \in UriValues
  /\ cached = [conn |-> Null, promise |-> Null]
  /\ attempts = <<>>
  /\ cpc = [p \in Callers |-> "idle"]
  /\ cawait = [p \in Callers |-> 0]
  /\ cout = [p \in Callers |-> Undefined]
  /\ microtasks = <<>>
  /\ running = FALSE

\* a task starts: the microtask queue is empty and the event loop takes a
\* request or a callback
BeginTask ==
  /\ ~running /\ microtasks = <<>>
  /\ running' = TRUE
  /\ UNCHANGED <<MONGODB_URI, cached, attempts, cpc, cawait, cout, microtasks>>
  /\ UNCHANGED outsideConnect

\* the event loop takes an application microtask from the head of the queue
BeginJob ==
  /\ ~running /\ microtasks # <<>> /\ Head(microtasks) = AppJob
  /\ running' = TRUE
  /\ microtasks' = Tail(microtasks)
  /\ UNCHANGED <<MONGODB_URI, cached, attempts, cpc, cawait, cout>>
  /\ UNCHANGED outsideConnect

\* the running code queues a microtask (a then callback, or an await of its own)
QueueJob ==
  /\ running /\ AppJobsQueued < MaxJobs
  /\ microtasks' = Append(microtasks, AppJob)
  /\ UNCHANGED <<MONGODB_URI, cached, attempts, cpc, cawait, cout, running>>
  /\ UNCHANGED outsideConnect

\* the running code finishes
EndJob ==
  /\ running
  /\ running' = FALSE
  /\ UNCHANGED <<MONGODB_URI, cached, attempts, cpc, cawait, cout, microtasks>>
  /\ UNCHANGED outsideConnect

\* connectDB() called by the running code: everything up to the await
connectDB(p) ==
  /\ running
  /\ cpc[p] = "idle"
  /\ IF NoUri(MONGODB_URI)
     THEN /\ cpc' = [cpc EXCEPT ![p] = "threw"]
          /\ cout' = [cout EXCEPT ![p] = MissingUri]
          /\ UNCHANGED <<cached, attempts, cawait, microtasks>>
     ELSE IF cached.conn # Null
     THEN /\ cpc' = [cpc EXCEPT ![p] = "returned"]
          /\ cout' = [cout EXCEPT ![p] = cached.conn]
          /\ UNCHANGED <<cached, attempts, cawait, microtasks>>
     ELSE /\ cached.promise = Null => Len(attempts) < MaxAttempts
          /\ LET fresh == cached.promise = Null
                 id == IF fresh THEN Len(attempts) + 1 ELSE cached.promise.id
                 started == IF fresh
                            THEN Append(attempts, [state |-> "pending", waiters |-> <<>>])
                            ELSE attempts
             IN  /\ cached' = [cached EXCEPT !.promise = Promise(id)]
                 /\ attempts' = [started EXCEPT ![id].waiters = Append(@, p)]
                 /\ microtasks' =
                      IF fresh THEN Append(microtasks, DriverJob(id))
                      ELSE IF started[id].state = "pending" THEN microtasks
                      ELSE Append(microtasks, ResumeJob(p))
                 /\ cawait' = [cawait EXCEPT ![p] = id]
                 /\ cpc' = [cpc EXCEPT ![p] = "awaiting"]
                 /\ UNCHANGED cout
  /\ UNCHANGED <<MONGODB_URI, running>>
  /\ UNCHANGED outsideConnect

\* the jobs that continue the callers registered on a promise, in the order
\* they awaited it
RECURSIVE ResumeJobs(_)
ResumeJobs(waiters) ==
  IF waiters = <<>> THEN <<>>
  ELSE <<ResumeJob(Head(waiters))>> \o ResumeJobs(Tail(waiters))

\* the microtask of mongoose.connect runs: it rejects the promise at once (a
\* connection string it cannot use) or leaves it pending and waits for the
\* network
DriverJobRun(reject) ==
  /\ ~running /\ microtasks # <<>> /\ Head(microtasks).kind = "driver"
  /\ LET id == Head(microtasks).attempt
     IN  IF reject
         THEN /\ attempts' = [attempts EXCEPT ![id].state = "rejected"]
              /\ microtasks' = Tail(microtasks) \o ResumeJobs(attempts[id].waiters)
         ELSE /\ microtasks' = Tail(microtasks)
              /\ UNCHANGED attempts
  /\ UNCHANGED <<MONGODB_URI, cached, cpc, cawait, cout, running>>
  /\ UNCHANGED outsideConnect

\* a network callback of the driver, a task of its own, settles the promise of
\* a mongoose.connect call
Settle(id, outcome) ==
  /\ ~running /\ microtasks = <<>>
  /\ id \in 1..Len(attempts)
  /\ attempts[id].state = "pending"
  /\ attempts' = [attempts EXCEPT ![id].state = outcome]
  /\ microtasks' = microtasks \o ResumeJobs(attempts[id].waiters)
  /\ UNCHANGED <<MONGODB_URI, cached, cpc, cawait, cout, running>>
  /\ UNCHANGED outsideConnect

\* the event loop takes the continuation of a caller from the head of the
\* queue: the rest of connectDB after the await.  The caller's own reaction to
\* the outcome may be queued behind it (follow).
Resume(follow) ==
  /\ ~running /\ microtasks # <<>> /\ Head(microtasks).kind = "resume"
  /\ follow => AppJobsQueued < MaxJobs
  /\ LET p == Head(microtasks).caller
         id == cawait[p]
     IN  IF attempts[id].state = "fulfilled"
         THEN /\ cached' = [cached EXCEPT !.conn = Mongoose]
              /\ cpc' = [cpc EXCEPT ![p] = "returned"]
              /\ cout' = [cout EXCEPT ![p] = cached'.conn]
         ELSE /\ cached' = ClearPromise(cached)
              /\ cpc' = [cpc EXCEPT ![p] = "threw"]
              /\ cout' = [cout EXCEPT ![p] = ConnectError(id)]
  /\ microtasks' = IF follow THEN Append(Tail(microtasks), AppJob)
                   ELSE Tail(microtasks)
  /\ UNCHANGED <<MONGODB_URI, attempts, cawait, running>>
  /\ UNCHANGED outsideConnect

SpecConnectNext ==
  \/ BeginTask
  \/ BeginJob
  \/ QueueJob
  \/ EndJob
  \/ \E p \in Callers : connectDB(p)
  \/ \E reject \in BOOLEAN : DriverJobRun(reject)
  \/ \E id \in 1..MaxAttempts, outcome \in {"fulfilled", "rejected"} : Settle(id, outcome)
  \/ \E follow \in BOOLEAN : Resume(follow)

SpecConnect == SpecConnectInit /\ [][SpecConnectNext]_allVars

\* mongoose.connect is invoked in this step
ConnectInvoked == Len(attempts') > Len(attempts)

\* C13: under any interleaving of concurrent connectDB calls mongoose.connect
\* is invoked only when every earlier attempt has failed, never while one is
\* pending or has succeeded; so callers share the attempt in flight and every
\* call that returns gives the one cached connection.
C13_SingleFlight ==
  [][/\ ConnectInvoked =>
          \A id \in 1..Len(attempts) : attempts[id].state = "rejected"
     /\ \A p \in Callers :
          cpc'[p] = "returned" => cout'[p] = Mongoose /\ cout'[p] = cached'.conn]_allVars

ConnectTypeOK ==
  /\ MONGODB_URI \in UriValues
  /\ cached.conn \in {Null, Mongoose}
  /\ cached.promise \in {Null} \cup {Promise(id) : id \in 1..Len(attempts)}
  /\ Len(attempts) <= MaxAttempts
  /\ \A id \in 1..Len(attempts) :
       attempts[id].state \in {"pending", "fulfilled", "rejected"}
  /\ \A p \in Callers :
       /\ cpc[p] \in {"idle", "awaiting", "returned", "threw"}
       /\ cawait[p] \in 0..Len(attempts)

\* caller p finishes in this step the await of an attempt
Resumed(p) == cpc[p] = "awaiting" /\ cpc'[p] # "awaiting"

\* caller p calls connectDB in this step, with MONGODB_URI set
Called(p) == cpc[p] = "idle" /\ cpc'[p] # "idle" /\ ~NoUri(MONGODB_URI)

\* every attempt so far has failed and each of its waiters has got its error
AllFailedAndReceived ==
  /\ \A id \in 1..Len(attempts) : attempts[id].state = "rejected"
  /\ \A p \in Callers : cpc[p] # "awaiting"

\* a waiter whose attempt has settled has its continuation in the queue
NoWaiterLost ==
  \A p \in Callers :
    (cpc[p] = "awaiting" /\ attempts[cawait[p]].state # "pending") =>
      \E i \in 1..Len(microtasks) : microtasks[i] = ResumeJob(p)

\* C19: when a connection attempt fails every caller waiting on it receives
\* its error and the cache is left with conn = null and promise = null; the
\* next call then starts a new attempt instead of returning the failed one;
\* when an attempt succeeds its waiters return the connection, which is cached
\* and returned by later calls without another attempt.
C19_FailureClearsCache ==
  [][/\ NoWaiterLost
     /\ \A p \in Callers :
          /\ (Resumed(p) /\ attempts[cawait[p]].state = "rejected") =>
                /\ cpc'[p] = "threw"
                /\ cout'[p] = ConnectError(cawait[p])
                /\ cached'.conn = Null
                /\ cached'.promise = Null
          /\ (Resumed(p) /\ attempts[cawait[p]].state = "fulfilled") =>
                /\ cpc'[p] = "returned"
                /\ cout'[p] = Mongoose
                /\ cached'.conn = Mongoose
          /\ (Called(p) /\ AllFailedAndReceived) =>
                /\ ConnectInvoked
                /\ cpc'[p] = "awaiting"
                /\ cawait'[p] = Len(attempts')
                /\ attempts'[cawait'[p]].state = "pending"
          /\ (Called(p) /\ cached.conn # Null) =>
                /\ ~ConnectInvoked
                /\ cpc'[p] = "returned"
                /\ cout'[p] = cached.conn]_allVars

(***************************************************************************)
(* The User document and its methods.  user is the document a method is    *)
(* called on; save() writes it to the collection when validation and the   *)
(* pre('save') hook accept it and throws, leaving the collection as it     *)
(* was, when they do not.                                                  *)
(***************************************************************************)

\* calendar days the clock can reach
MaxDay == 1
\* entries of pointsHistory followed
MaxHistory == 2

REGISTRATION == 200
DAILY_LOGIN == 100
READ_CONTENT == 100

Date(day) == [kind |-> "date", day |-> day]

\* !value for the values a string field can hold
Falsy(value) == value = Undefined \/ value = Null \/ value = Str(<<>>)

WordChars == {"a", "b", "c", "o", "p", "w", "s", "e", "r", "t", "u", "x"}

\* the match pattern of email, for addresses with one dot after the @:
\* word characters, @, word characters, a dot and two or three word characters
MatchesEmailPattern(chars) ==
  \E i, j \in 1..Len(chars) :
    /\ 1 < i /\ i + 1 < j
    /\ chars[i] = "@" /\ chars[j] = "."
    /\ Len(chars) - j \in {2, 3}
    /\ \A k \in (1..Len(chars)) \ {i, j} : chars[k] \in WordChars

\* schema validators of a string path: skipped when the path is not set
EmailValid(value) ==
  Falsy(value) \/ MatchesEmailPattern(value.chars)
MinLengthValid(value, n) ==
  value = Undefined \/ Len(value.chars) >= n

ContentTypeEnum == {"public", "locked"}

\* pre('save'): registered users must have email, password and username
PreSaveAccepts(doc) ==
  doc.userType = "registered" =>
    ~Falsy(doc.email) /\ ~Falsy(doc.password) /\ ~Falsy(doc.username)

\* save() succeeds: schema validation, then the pre('save') hook
SaveAccepts(doc) ==
  /\ EmailValid(doc.email)
  /\ MinLengthValid(doc.password, 6)
  /\ MinLengthValid(doc.username, 3)
  /\ doc.totalPoints >= 0
  /\ \A i \in 1..Len(doc.contentProgress) :
       doc.contentProgress[i].contentType \in ContentTypeEnum
  /\ PreSaveAccepts(doc)

\* User.create({ userType: 'guest', name, personalityType })
NewGuest ==
  [userType |-> "guest", email |-> Undefined, password |-> Undefined,
   username |-> Undefined, totalPoints |-> 0, pointsHistory |-> <<>>,
   lastLoginDate |-> Undefined, contentProgress |-> <<>>,
   convertedToRegisteredAt |-> Undefined]

ContentIds == {"c1", "c2"}
\* the values the method accepts: 'private' is not in the enum of the schema
ContentTypes == {"public", "private"}
TimesSpent == {30, 60}

GoodEmail == Str(<<"a", "@", "b", ".", "c", "o">>)
GoodPassword == Str(<<"s", "e", "c", "r", "e", "t">>)
GoodUsername == Str(<<"u", "s", "e", "r">>)

\* arguments of convertToRegistered: one set the schema accepts, one with an
\* empty email and a password that is too short
Registrations ==
  {[email |-> GoodEmail, password |-> GoodPassword, username |-> GoodUsername],
   [email |-> Str(<<>>), password |-> Str(<<"p", "w">>), username |-> GoodUsername]}

\* this.totalPoints += points; this.pointsHistory.push({ ... })
AddPoints(doc, points, reason, contentId, day) ==
  [doc EXCEPT !.totalPoints = @ + points,
              !.pointsHistory = Append(@, [points |-> points, reason |-> reason,
                                           contentId |-> contentId,
                                           timestamp |-> Date(day)])]

\* contentProgress.find(cp => cp.contentId === contentId): the index of the
\* first match, 0 when there is none
FindProgress(doc, contentId) ==
  IF \E i \in 1..Len(doc.contentProgress) : doc.contentProgress[i].contentId = contentId
  THEN CHOOSE i \in 1..Len(doc.contentProgress) :
         /\ doc.contentProgress[i].contentId = contentId
         /\ \A j \in 1..(i - 1) : doc.contentProgress[j].contentId # contentId
  ELSE 0

\* hasReadContent(contentId)
hasReadContent(doc, contentId) ==
  LET i == FindProgress(doc, contentId)
  IN  IF i # 0 THEN doc.contentProgress[i].pointsAwarded ELSE FALSE

\* the days a later reading of the clock can show
Later(day) == {d \in {day, day + 1} : d <= MaxDay}

\* what a call leaves in uret
Ended(op, arg, n, outcome, value) ==
  [kind |-> "call", op |-> op, arg |-> arg, n |-> n, outcome |-> outcome,
   value |-> value]

SpecUserInit ==
  /\ ScoringIdle
  /\ VariantsIdle
  /\ ClientIdle
  /\ SubmitIdle
  /\ CallsIdle
  /\ ResultsIdle
  /\ ConnectIdle
  /\ OwnerIdle
  /\ user = NewGuest
  /\ stored = NewGuest
  /\ now = 0
  /\ uret = [kind |-> "call", op |-> "create", arg |-> "", n |-> 0,
             outcome |-> "return", value |-> "doc"]

\* await this.save() at the end of a method whose changes gave doc
SaveAndEnd(doc, op, arg, n, value) ==
  /\ user' = doc
  /\ IF SaveAccepts(doc)
     THEN /\ stored' = doc
          /\ uret' = Ended(op, arg, n, "return", value)
     ELSE /\ UNCHANGED stored
          /\ uret' = Ended(op, arg, n, "throw", "save")

\* without the lookup: an entry is pushed on every call
AlwaysNotStarted(doc, contentId) == TRUE

\* !existingProgress
NotStarted(doc, contentId) == FindProgress(doc, contentId) = 0

\* startContent(contentId, contentType).  The entry returned is recorded in
\* uret.n by its index in contentProgress: existingProgress, or the last entry.
startContent(contentId, contentType) ==
  /\ IF NotStarted(user, contentId)
     THEN SaveAndEnd([user EXCEPT !.contentProgress =
                        Append(@, [contentId |-> contentId, contentType |-> contentType,
                                   startedAt |-> Date(now), completedAt |-> Undefined,
                                   timeSpent |-> 0, pointsAwarded |-> FALSE])],
                     "startContent", contentId, Len(user.contentProgress) + 1, "entry")
     ELSE /\ UNCHANGED <<user, stored>>
          /\ uret' = Ended("startContent", contentId, FindProgress(user, contentId),
                           "return", "entry")
  /\ UNCHANGED now
  /\ UNCHANGED outsideUser

\* the guard dropped: points are awarded on every call
NeverAwarded(progress) == FALSE

\* progress.pointsAwarded, as read by if (!progress.pointsAwarded)
AlreadyAwarded(progress) == progress.pointsAwarded

\* completeContent(contentId, timeSpent, readPoints)
completeContent(contentId, timeSpent, readPoints) ==
  /\ LET i == FindProgress(user, contentId)
     IN  IF i = 0
         THEN /\ UNCHANGED <<user, stored>>
              /\ uret' = Ended("completeContent", contentId, timeSpent, "throw",
                              "Content not started yet")
         ELSE IF ~AlreadyAwarded(user.contentProgress[i])
         THEN /\ Len(user.pointsHistory) < MaxHistory
              /\ SaveAndEnd(AddPoints([user EXCEPT !.contentProgress[i].completedAt = Date(now),
                                                   !.contentProgress[i].timeSpent = timeSpent,
                                                   !.contentProgress[i].pointsAwarded = TRUE],
                                      readPoints, "read_content", contentId, now),
                            "completeContent", contentId, timeSpent, "doc")
         ELSE SaveAndEnd(user, "completeContent", contentId, timeSpent, "doc")
  /\ UNCHANGED now
  /\ UNCHANGED outsideUser

\* the guard dropped: a registered user is converted again
NeverRegistered(doc) == FALSE

\* if (this.userType === 'registered')
AlreadyRegistered(doc) == doc.userType = "registered"

\* convertToRegistered(email, password, username, registerPoints)
convertToRegistered(r, registerPoints) ==
  /\ IF AlreadyRegistered(user)
     THEN /\ UNCHANGED <<user, stored>>
          /\ uret' = Ended("convertToRegistered", "", registerPoints, "throw",
                              "User is already registered")
     ELSE /\ Len(user.pointsHistory) < MaxHistory
          /\ SaveAndEnd(AddPoints([user EXCEPT !.userType = "registered",
                                               !.email = r.email,
                                               !.password = r.password,
                                               !.username = r.username,
                                               !.convertedToRegisteredAt = Date(now)],
                                  registerPoints, "registration", "undefined", now),
                        "convertToRegistered", "", registerPoints, "doc")
  /\ UNCHANGED now
  /\ UNCHANGED outsideUser

\* lastLogin.getTime() <= today.getTime()
NotAfterDay(lastLogin, today) == lastLogin <= today

\* lastLogin.getTime() < today.getTime(), both at midnight
BeforeDay(lastLogin, today) == lastLogin < today

\* awardDailyLogin(dailyLoginPoints).  The clock is read three times: for
\* today, for lastLoginDate and for the timestamp of the history entry, and
\* midnight can pass in between.
awardDailyLogin(dailyLoginPoints) ==
  /\ LET today == now
         lastLogin == user.lastLoginDate
     IN  IF lastLogin = Undefined \/ BeforeDay(lastLogin.day, today)
         THEN /\ Len(user.pointsHistory) < MaxHistory
              /\ \E d1 \in Later(today) : \E d2 \in Later(d1) :
                   /\ now' = d2
                   /\ SaveAndEnd(AddPoints([user EXCEPT !.lastLoginDate = Date(d1)],
                                           dailyLoginPoints, "daily_login", "undefined", d2),
                                 "awardDailyLogin", "", dailyLoginPoints, "true")
         ELSE /\ UNCHANGED <<user, stored, now>>
              /\ uret' = Ended("awardDailyLogin", "", dailyLoginPoints, "return", "false")
  /\ UNCHANGED outsideUser

\* User.findById(...): the document is read again from the collection
Reload ==
  /\ user # stored
  /\ user' = stored
  /\ uret' = Ended("findById", "", 0, "return", "doc")
  /\ UNCHANGED <<stored, now>>
  /\ UNCHANGED outsideUser

\* a day passes between two calls
Tick ==
  /\ now < MaxDay
  /\ now' = now + 1
  /\ UNCHANGED <<user, stored, uret>>
  /\ UNCHANGED outsideUser

SpecUserNext ==
  \/ \E contentId \in ContentIds, contentType \in ContentTypes :
       startContent(contentId, contentType)
  \/ \E contentId \in ContentIds, timeSpent \in TimesSpent :
       completeContent(contentId, timeSpent, READ_CONTENT)
  \/ \E r \in Registrations : convertToRegistered(r, REGISTRATION)
  \/ awardDailyLogin(DAILY_LOGIN)
  \/ Reload
  \/ Tick

SpecUser == SpecUserInit /\ [][SpecUserNext]_allVars

UserTypeOK ==
  /\ user.userType \in {"guest", "registered"}
  /\ stored.userType \in {"guest", "registered"}
  /\ Len(user.pointsHistory) <= MaxHistory
  /\ now \in 0..MaxDay
  /\ SaveAccepts(stored)

\* a call of the method ended in this step.  (A call that changes nothing and
\* ends as the call before it did is a stuttering step.)
MethodCalled(op) == uret'.op = op /\ <<user, stored, uret>>' # <<user, stored, uret>>

\* entries of pointsHistory with the reason, for the content
Awards(doc, reason, contentId) ==
  Cardinality({i \in 1..Len(doc.pointsHistory) :
                 /\ doc.pointsHistory[i].reason = reason
                 /\ doc.pointsHistory[i].contentId = contentId})

\* the step adds points once, with the reason
AwardedOnce(points, reason) ==
  /\ user'.totalPoints = user.totalPoints + points
  /\ Len(user'.pointsHistory) = Len(user.pointsHistory) + 1
  /\ SubSeq(user'.pointsHistory, 1, Len(user.pointsHistory)) = user.pointsHistory
  /\ user'.pointsHistory[Len(user'.pointsHistory)].points = points
  /\ user'.pointsHistory[Len(user'.pointsHistory)].reason = reason

\* C14: awardDailyLogin awards once per calendar day: a call made on the day
\* of lastLoginDate returns false and leaves totalPoints, pointsHistory and
\* lastLoginDate unchanged; a call returns true, adding dailyLoginPoints once
\* and setting lastLoginDate, only if there was no earlier login or the last
\* login was on an earlier day.
C14_DailyLoginOncePerDay ==
  [][MethodCalled("awardDailyLogin") =>
       /\ (user.lastLoginDate # Undefined /\ user.lastLoginDate.day = now) =>
             /\ uret'.outcome = "return" /\ uret'.value = "false"
             /\ user'.totalPoints = user.totalPoints
             /\ user'.pointsHistory = user.pointsHistory
             /\ user'.lastLoginDate = user.lastLoginDate
       /\ (uret'.outcome = "return" /\ uret'.value = "true") =>
             /\ user.lastLoginDate = Undefined \/ user.lastLoginDate.day < now
             /\ AwardedOnce(uret'.n, "daily_login")
             /\ user'.lastLoginDate # Undefined
             /\ user'.lastLoginDate.day \in Later(now)
             /\ stored' = user']_allVars

\* points were awarded on two days and a further call on the second day was
\* refused
C14_Witness ==
  /\ uret.op = "awardDailyLogin" /\ uret.outcome = "return" /\ uret.value = "false"
  /\ user.lastLoginDate = Date(now)
  /\ Awards(user, "daily_login", "undefined") = 2
  /\ user.totalPoints = 2 * DAILY_LOGIN

\* C15: read points for a contentId are awarded at most once: pointsHistory
\* never holds two read_content entries for one content; the first
\* completeContent call on a started content sets pointsAwarded and adds
\* readPoints, and every later call for it leaves totalPoints, pointsHistory,
\* completedAt and timeSpent unchanged.
C15_ReadPointsOnce ==
  /\ [](\A c \in ContentIds :
          /\ Awards(user, "read_content", c) <= 1
          /\ Awards(stored, "read_content", c) <= 1)
  /\ [][\A c \in ContentIds :
          (MethodCalled("completeContent") /\ uret'.arg = c) =>
            LET i == FindProgress(user, c)
            IN  /\ i = 0 =>
                      /\ uret'.outcome = "throw"
                      /\ uret'.value = "Content not started yet"
                      /\ user' = user
                /\ (i # 0 /\ ~user.contentProgress[i].pointsAwarded) =>
                      /\ user'.contentProgress[i].pointsAwarded
                      /\ user'.contentProgress[i].timeSpent = uret'.n
                      /\ hasReadContent(user', c)
                      /\ AwardedOnce(READ_CONTENT, "read_content")
                /\ (i # 0 /\ user.contentProgress[i].pointsAwarded) =>
                      /\ hasReadContent(user, c)
                      /\ user'.totalPoints = user.totalPoints
                      /\ user'.pointsHistory = user.pointsHistory
                      /\ user'.contentProgress[i].completedAt =
                           user.contentProgress[i].completedAt
                      /\ user'.contentProgress[i].timeSpent =
                           user.contentProgress[i].timeSpent]_allVars

\* a later completeContent call for c1, made on a later day with another
\* timeSpent, returned and left the entry and the points as the first call set
\* them
C15_Witness ==
  LET i == FindProgress(user, "c1")
  IN  /\ uret.op = "completeContent" /\ uret.arg = "c1" /\ uret.outcome = "return"
      /\ i # 0
      /\ user.contentProgress[i].pointsAwarded
      /\ user.contentProgress[i].timeSpent # uret.n
      /\ user.contentProgress[i].completedAt # Date(now)
      /\ Awards(user, "read_content", "c1") = 1
      /\ user.totalPoints = READ_CONTENT

\* number of registration entries of pointsHistory
RegistrationAwards(doc) == Awards(doc, "registration", "undefined")

\* C20: convertToRegistered on a registered user fails with 'User is already
\* registered' and leaves the document unchanged; on a guest it sets userType
\* to 'registered' and adds registerPoints once; so pointsHistory never holds
\* two registration entries.
C20_RegisteredOnce ==
  /\ [](RegistrationAwards(user) <= 1 /\ RegistrationAwards(stored) <= 1)
  /\ [][MethodCalled("convertToRegistered") =>
          /\ user.userType = "registered" =>
                /\ uret'.outcome = "throw"
                /\ uret'.value = "User is already registered"
                /\ user' = user
                /\ stored' = stored
          /\ user.userType = "guest" =>
                /\ user'.userType = "registered"
                /\ AwardedOnce(uret'.n, "registration")
                /\ uret'.outcome = "return" => stored' = user']_allVars

\* a second convertToRegistered call on a user registered by the first
C20_Witness ==
  /\ uret.op = "convertToRegistered" /\ uret.outcome = "throw"
  /\ uret.value = "User is already registered"
  /\ stored.userType = "registered"
  /\ RegistrationAwards(stored) = 1
  /\ user.totalPoints = REGISTRATION

(***************************************************************************)
(* The Result schema with guestId: a document is built from the fields a   *)
(* caller gives and saved; save() validates the required paths and then    *)
(* runs the pre('save') hook.                                              *)
(***************************************************************************)

\* documents followed in the collection
MaxSaved == 2

ObjectId(id) == [kind |-> "objectid", id |-> id]

UserIdValues == {Undefined, Null, ObjectId("u1")}
GuestIdValues == {Undefined, Null, Str(<<>>), Str(<<"g">>)}
RequiredValues == {Undefined, [kind |-> "value"]}

\* new Result({ assessmentId, userId, guestId, answers, scores })
ResultDocs ==
  [assessmentId : RequiredValues, userId : UserIdValues, guestId : GuestIdValues,
   answers : RequiredValues, scores : RequiredValues]

\* !!value
Truthy(value) == ~(value = Undefined \/ value = Null \/ value = Str(<<>>))

\* required: assessmentId, answers, scores
RequiredPresent(doc) ==
  /\ doc.assessmentId # Undefined
  /\ doc.answers # Undefined
  /\ doc.scores # Undefined

\* the hook with only its second check
OwnerPreSaveNeitherOnly(doc) ==
  IF ~Truthy(doc.userId) /\ ~Truthy(doc.guestId)
  THEN "Result must have either userId or guestId"
  ELSE "ok"

\* pre('save'): the error thrown, or "ok"
OwnerPreSave(doc) ==
  LET hasUserId == Truthy(doc.userId)
      hasGuestId == Truthy(doc.guestId)
  IN  IF hasUserId /\ hasGuestId
      THEN "Result cannot have both userId and guestId"
      ELSE IF ~hasUserId /\ ~hasGuestId
      THEN "Result must have either userId or guestId"
      ELSE "ok"

SpecOwnerInit ==
  /\ ScoringIdle
  /\ VariantsIdle
  /\ ClientIdle
  /\ SubmitIdle
  /\ CallsIdle
  /\ ResultsIdle
  /\ ConnectIdle
  /\ UserIdle
  /\ gresults = <<>>
  /\ gsave = [kind |-> "none"]

\* await new Result(doc).save(): the required paths are validated, then the
\* pre('save') hook runs
SaveResult(doc) ==
  /\ LET error == IF ~RequiredPresent(doc) THEN "ValidationError" ELSE OwnerPreSave(doc)
     IN  /\ error = "ok" => Len(gresults) < MaxSaved
         /\ gsave' = [kind |-> "save", doc |-> doc,
                      outcome |-> IF error = "ok" THEN "saved" ELSE "throw",
                      error |-> error]
         /\ gresults' = IF error = "ok" THEN Append(gresults, doc) ELSE gresults
  /\ UNCHANGED outsideOwner

SpecOwnerNext == \E doc \in ResultDocs : SaveResult(doc)

SpecOwner == SpecOwnerInit /\ [][SpecOwnerNext]_allVars

\* the owners a document names: a registered user, a guest
Owners(doc) ==
  (IF doc.userId.kind = "objectid" THEN {"user"} ELSE {}) \cup
  (IF doc.guestId.kind = "string" /\ Len(doc.guestId.chars) > 0 THEN {"guest"} ELSE {})

\* C16: a Result is owned by exactly one of a registered user and a guest:
\* save() succeeds only for a document that names exactly one of userId and
\* guestId, and throws for a document that names both or neither; so every
\* saved document has exactly one owner.
C16_ExactlyOneOwner ==
  /\ \A i \in 1..Len(gresults) : Cardinality(Owners(gresults[i])) = 1
  /\ gsave.kind = "save" =>
       /\ gsave.outcome = "saved" => Cardinality(Owners(gsave.doc)) = 1
       /\ Cardinality(Owners(gsave.doc)) # 1 =>
            /\ gsave.outcome = "throw"
            /\ gsave.error # "ok"
       /\ (RequiredPresent(gsave.doc) /\ Cardinality(Owners(gsave.doc)) = 2) =>
            gsave.error = "Result cannot have both userId and guestId"
       /\ (RequiredPresent(gsave.doc) /\ Cardinality(Owners(gsave.doc)) = 0) =>
            gsave.error = "Result must have either userId or guestId"

\* a document with both owners was refused after one with a guest only and
\* one with a user only had been saved
C16_Witness ==
  /\ Len(gresults) = 2
  /\ Owners(gresults[1]) # Owners(gresults[2])
  /\ gsave.kind = "save" /\ gsave.outcome = "throw"
  /\ Owners(gsave.doc) = {"user", "guest"}
  /\ gsave.error = "Result cannot have both userId and guestId"

\* entries of contentProgress for the content
EntriesFor(doc, contentId) ==
  {i \in 1..Len(doc.contentProgress) : doc.contentProgress[i].contentId = contentId}

\* C21: startContent is idempotent per contentId: contentProgress never holds
\* two entries for one content; a call for content not started appends one
\* fresh entry and leaves the others alone; a repeated call returns the
\* existing entry and changes nothing, so its startedAt, timeSpent,
\* completedAt and pointsAwarded are not reset.
C21_StartContentIdempotent ==
  /\ [](\A c \in ContentIds :
          /\ Cardinality(EntriesFor(user, c)) <= 1
          /\ Cardinality(EntriesFor(stored, c)) <= 1)
  /\ [][\A c \in ContentIds :
          (MethodCalled("startContent") /\ uret'.arg = c) =>
            LET i == FindProgress(user, c)
                last == Len(user'.contentProgress)
            IN  /\ i # 0 =>
                      /\ uret'.outcome = "return"
                      /\ uret'.n = i
                      /\ user' = user
                      /\ stored' = stored
                /\ i = 0 =>
                      /\ last = Len(user.contentProgress) + 1
                      /\ SubSeq(user'.contentProgress, 1, last - 1) = user.contentProgress
                      /\ user'.contentProgress[last].contentId = c
                      /\ user'.contentProgress[last].startedAt = Date(now)
                      /\ user'.contentProgress[last].timeSpent = 0
                      /\ user'.contentProgress[last].completedAt = Undefined
                      /\ ~user'.contentProgress[last].pointsAwarded
                      /\ uret'.outcome = "return" =>
                            uret'.n = last /\ stored' = user']_allVars

\* c2 was started and completed, c1 after it; a day later startContent was
\* called again for c1 and returned the completed entry as it was
C21_Witness ==
  /\ uret.op = "startContent" /\ uret.arg = "c1" /\ uret.outcome = "return"
  /\ uret.n = 2
  /\ Len(user.contentProgress) = 2
  /\ user.contentProgress[2].contentId = "c1"
  /\ user.contentProgress[2].pointsAwarded
  /\ user.contentProgress[2].timeSpent # 0
  /\ user.contentProgress[2].completedAt # Undefined
  /\ user.contentProgress[2].startedAt # Date(now)

(***************************************************************************)
(* POST /api/assessment/submit as a whole: connection, body, validation,   *)
(* lookup of the assessment, scoring, guest user, result.                  *)
(***************************************************************************)
MaxSubmits == 2

HexDigits == {"0", "1", "2", "3", "4", "5", "6", "7", "8", "9",
              "a", "b", "c", "d", "e", "f", "A", "B", "C", "D", "E", "F"}

\* an answers value that is an array
Arr(items) == [kind |-> "array", items |-> items]

\* a request body that parsed to an object with these fields
Body(assessmentId, answers0, qc) ==
  [kind |-> "object", assessmentId |-> assessmentId, answers |-> answers0,
   questionCounts |-> qc]

\* the body is not JSON: request.json() rejects
MalformedBody == [kind |-> "malformed"]

StoredId == Str(Repeat("a", 24))
AbsentId == Str(Repeat("b", 24))
ShortId == Str(<<"a", "b", "c">>)

\* the _id values of the assessments collection
StoredAssessments == {StoredId}

AssessmentIdValues == {Undefined, Null, Str(<<>>), ShortId, AbsentId, StoredId}

AnswersValues ==
  {Undefined, Null, Str(<<>>), Str(<<"E">>), Arr(<<>>),
   Arr(<<"E", "S", "T", "J">>)}

SubmitQuestionCounts == {AllCounts(Num(1)), Undefined}

Bodies ==
  {MalformedBody, Null} \cup
  {Body(id, a, qc) : id \in AssessmentIdValues, a \in AnswersValues,
                     qc \in SubmitQuestionCounts}

\* const { assessmentId, answers, questionCounts, userName } = body
Destructures(body) == body.kind = "object"

\* !value
Not(value) == value \in {Undefined, Null, Str(<<>>)}

\* Array.isArray(answers)
IsArray(value) == value.kind = "array"

\* !assessmentId || !answers || !Array.isArray(answers)
InvalidRequest(body) ==
  Not(body.assessmentId) \/ Not(body.answers) \/ ~IsArray(body.answers)

\* findById casts the id to an ObjectId: a string of 24 hex digits or of 12
\* bytes; anything else makes the query reject with a CastError
CastsToObjectId(id) ==
  /\ id.kind = "string"
  /\ \/ Len(id.chars) = 12
     \/ Len(id.chars) = 24 /\ \A i \in 1..24 : id.chars[i] \in HexDigits

\* Assessment.findById(assessmentId) resolved with a document
Found(id) == id \in StoredAssessments

\* the status the handler answers with, and what it did on the way there
Outcome(connects, body) ==
  LET none == [users |-> 0, results |-> 0, scorings |-> 0]
  IN  IF ~connects THEN [status |-> 500] @@ none
      ELSE IF ~Destructures(body) THEN [status |-> 500] @@ none
      ELSE IF InvalidRequest(body) THEN [status |-> 400] @@ none
      ELSE IF ~CastsToObjectId(body.assessmentId) THEN [status |-> 500] @@ none
      ELSE IF ~Found(body.assessmentId) THEN [status |-> 404] @@ none
      ELSE LET calculatedResult ==
                 calculateResult(body.answers.items, body.questionCounts)
           IN  IF calculatedResult.kind = "throw"
               THEN [status |-> 500, users |-> 0, results |-> 0, scorings |-> 1]
               ELSE IF ~ResultValid(ResultDataOf(body.answers.items,
                                                 body.questionCounts))
               THEN [status |-> 500, users |-> 1, results |-> 0, scorings |-> 1]
               ELSE [status |-> 200, users |-> 1, results |-> 1, scorings |-> 1]

SpecSubmitInit ==
  /\ ScoringIdle
  /\ VariantsIdle
  /\ ClientIdle
  /\ CallsIdle
  /\ ResultsIdle
  /\ ConnectIdle
  /\ UserIdle
  /\ OwnerIdle
  /\ SubmitIdle

\* one request handled from connectDB to the response
SubmitPOST(connects, body) ==
  /\ submitted < MaxSubmits
  /\ LET o == Outcome(connects, body)
     IN  /\ submitted' = submitted + 1
         /\ submitLog' = [kind |-> "request", connects |-> connects,
                          body |-> body, status |-> o.status]
         /\ usersCreated' = usersCreated + o.users
         /\ resultsCreated' = resultsCreated + o.results
         /\ scoringsDone' = scoringsDone + o.scorings
  /\ UNCHANGED outsideSubmit

SpecSubmitNext == \E connects \in BOOLEAN, body \in Bodies : SubmitPOST(connects, body)

SpecSubmit == SpecSubmitInit /\ [][SpecSubmitNext]_allVars

\* the step answers a request
Answered == submitted' = submitted + 1

RequestBody == submitLog'.body

\* the request carries no assessmentId
AssessmentIdMissing ==
  ~Destructures(RequestBody) \/ RequestBody.assessmentId \in {Undefined, Null}

\* the request carries no answers, or answers that are not an array
AnswersMissingOrNotArray ==
  ~Destructures(RequestBody) \/ ~IsArray(RequestBody.answers)

\* no assessment has the id of the request
NoSuchAssessment == RequestBody.assessmentId \notin StoredAssessments

NothingCreatedOrScored ==
  UNCHANGED <<usersCreated, resultsCreated, scoringsDone>>

\* C22: a request without assessmentId, or without answers or with answers
\* that are not an array, is answered 400; any other request whose
\* assessmentId is not the id of an assessment is answered 404; in both cases
\* no User and no Result is created and no scoring is done.
C22_RejectsBadRequests ==
  [][Answered =>
       /\ (AssessmentIdMissing \/ AnswersMissingOrNotArray) =>
             submitLog'.status = 400 /\ NothingCreatedOrScored
       /\ (~(AssessmentIdMissing \/ AnswersMissingOrNotArray) /\ NoSuchAssessment) =>
             submitLog'.status = 404 /\ NothingCreatedOrScored]_allVars

(***************************************************************************)
(* AssessmentClient: the component's state, its two sessionStorage effects *)
(* and its handlers.  A handler's state updates, the render they cause and *)
(* the effects of that render are one step.                                *)
(***************************************************************************)
TotalQuestions == 2

\* assessment.questions, by position
QuestionIds == 1..TotalQuestions

\* the values of the two options of a question
OptionValues == {"A", "B"}

NotFetching == [kind |-> "none"]

\* JSON.stringify({ answers, currentQuestion })
Stringify(ans, cur) ==
  [kind |-> "json", answers |-> ans, currentQuestion |-> cur]

\* Object.keys(answers).length
KeyCount(ans) == Cardinality(DOMAIN ans)

\* the auto-save effect, run by a render in which answers, currentQuestion or
\* showInstructions changed
AutoSave(show, ans, cur, item) ==
  IF ~show /\ KeyCount(ans) > 0 THEN Stringify(ans, cur) ELSE item

\* without the early return: handleSubmit always goes on to fetch
NeverIncomplete(ans) == FALSE

\* Object.keys(answers).length < totalQuestions
Incomplete(ans) == KeyCount(ans) < TotalQuestions

\* assessment.questions.map(q => answers[q._id])
AnswersArray(ans) ==
  [q \in QuestionIds |-> IF q \in DOMAIN ans THEN Str(<<ans[q]>>) ELSE Undefined]

\* how a submit request can end: a 2xx response, any other response, a
\* rejected fetch, a response whose body is not JSON
FetchOutcomes == {"ok", "rejected", "networkError", "notJson"}

\* every outcome takes the success branch
AlwaysOk(outcome) == TRUE

\* response.json() resolved and response.ok
ResponseOk(outcome) == outcome = "ok"

SpecClientInit ==
  /\ ScoringIdle
  /\ VariantsIdle
  /\ CallsIdle
  /\ ResultsIdle
  /\ ConnectIdle
  /\ UserIdle
  /\ OwnerIdle
  /\ SubmitIdle
  /\ ClientIdle

\* the page is opened or reloaded: the component mounts with its initial
\* state, the load effect restores a saved item, the auto-save effect runs.
\* A reload ends the request in flight; a request of a component that was
\* left through the router is still answered, to a handler that is an orphan.
Mount ==
  /\ page' = "assessment"
  /\ isSubmitting' = FALSE
  /\ pushed' = "none"
  /\ lastEvent' = "none"
  /\ fetching' = IF page = "assessment" \/ fetching = NotFetching
                 THEN NotFetching
                 ELSE [fetching EXCEPT !.orphan = TRUE]
  /\ IF sessionStorage # Null
     THEN /\ clientAnswers' = sessionStorage.answers
          /\ currentQuestion' = sessionStorage.currentQuestion
          /\ showInstructions' = FALSE
     ELSE /\ clientAnswers' = <<>>
          /\ currentQuestion' = 0
          /\ showInstructions' = TRUE
  /\ sessionStorage' =
       AutoSave(showInstructions', clientAnswers', currentQuestion', sessionStorage)
  /\ UNCHANGED outsideClient

\* the route pushed last is reached: the component unmounts
Arrive ==
  /\ page = "assessment" /\ pushed # "none"
  /\ page' = "elsewhere"
  /\ pushed' = "none"
  /\ showInstructions' = TRUE /\ currentQuestion' = 0 /\ clientAnswers' = <<>>
  /\ isSubmitting' = FALSE
  /\ lastEvent' = "none"
  /\ UNCHANGED <<sessionStorage, fetching>>
  /\ UNCHANGED outsideClient

\* "Mulai Tes": setShowInstructions(false)
StartTest ==
  /\ page = "assessment" /\ showInstructions
  /\ showInstructions' = FALSE
  /\ sessionStorage' = AutoSave(FALSE, clientAnswers, currentQuestion, sessionStorage)
  /\ lastEvent' = "none"
  /\ UNCHANGED <<page, currentQuestion, clientAnswers, isSubmitting, fetching, pushed>>
  /\ UNCHANGED outsideClient

\* an option of the question shown is clicked
ClientHandleAnswer(value) ==
  /\ page = "assessment" /\ ~showInstructions
  /\ LET questionId == currentQuestion + 1
     IN  clientAnswers' =
           [q \in DOMAIN clientAnswers \cup {questionId} |->
              IF q = questionId THEN value ELSE clientAnswers[q]]
  /\ sessionStorage' =
       AutoSave(showInstructions, clientAnswers', currentQuestion, sessionStorage)
  /\ lastEvent' = "none"
  /\ UNCHANGED <<page, showInstructions, currentQuestion, isSubmitting, fetching, pushed>>
  /\ UNCHANGED outsideClient

\* "Selanjutnya", enabled when the question shown is answered
handleNext ==
  /\ page = "assessment" /\ ~showInstructions
  /\ currentQuestion # TotalQuestions - 1
  /\ (currentQuestion + 1) \in DOMAIN clientAnswers
  /\ currentQuestion < TotalQuestions - 1
  /\ currentQuestion' = currentQuestion + 1
  /\ sessionStorage' =
       AutoSave(showInstructions, clientAnswers, currentQuestion', sessionStorage)
  /\ lastEvent' = "none"
  /\ UNCHANGED <<page, showInstructions, clientAnswers, isSubmitting, fetching, pushed>>
  /\ UNCHANGED outsideClient

\* "Sebelumnya", enabled except on the first question
handlePrevious ==
  /\ page = "assessment" /\ ~showInstructions
  /\ currentQuestion > 0
  /\ currentQuestion' = currentQuestion - 1
  /\ sessionStorage' =
       AutoSave(showInstructions, clientAnswers, currentQuestion', sessionStorage)
  /\ lastEvent' = "none"
  /\ UNCHANGED <<page, showInstructions, clientAnswers, isSubmitting, fetching, pushed>>
  /\ UNCHANGED outsideClient

\* "Simpan Progress": after confirm() the state is stored and /register pushed
handleSave(confirmed) ==
  /\ page = "assessment" /\ ~showInstructions
  /\ IF confirmed
     THEN /\ sessionStorage' = Stringify(clientAnswers, currentQuestion)
          /\ pushed' = "register"
     ELSE UNCHANGED <<sessionStorage, pushed>>
  /\ lastEvent' = "none"
  /\ UNCHANGED <<page, showInstructions, currentQuestion, clientAnswers,
                 isSubmitting, fetching>>
  /\ UNCHANGED outsideClient

\* handleSubmit up to its await.  Its button is disabled while isSubmitting;
\* the button's other condition, allAnswered, is not assumed here, so that the
\* handler's own condition decides.
handleSubmit ==
  /\ page = "assessment" /\ ~showInstructions
  /\ ~isSubmitting
  /\ IF Incomplete(clientAnswers)
     THEN /\ lastEvent' = "incomplete"
          /\ UNCHANGED <<isSubmitting, fetching>>
     ELSE /\ fetching = NotFetching
          /\ isSubmitting' = TRUE
          /\ fetching' = [kind |-> "request", orphan |-> FALSE,
                          answers |-> AnswersArray(clientAnswers)]
          /\ lastEvent' = "sent"
  /\ UNCHANGED <<page, showInstructions, currentQuestion, clientAnswers,
                 sessionStorage, pushed>>
  /\ UNCHANGED outsideClient

\* the component that sent the request in flight is the one mounted
OwnRequest == page = "assessment" /\ fetching # NotFetching /\ ~fetching.orphan

\* handleSubmit from its await on: the request ended with the outcome
Response(outcome) ==
  /\ fetching # NotFetching
  /\ fetching' = NotFetching
  /\ IF ResponseOk(outcome)
     THEN /\ sessionStorage' = Null
          /\ pushed' = "result"
     ELSE UNCHANGED <<sessionStorage, pushed>>
  /\ isSubmitting' = IF OwnRequest THEN FALSE ELSE isSubmitting
  /\ lastEvent' = outcome
  /\ UNCHANGED <<page, showInstructions, currentQuestion, clientAnswers>>
  /\ UNCHANGED outsideClient

SpecClientNext ==
  \/ Mount
  \/ Arrive
  \/ StartTest
  \/ \E value \in OptionValues : ClientHandleAnswer(value)
  \/ handleNext
  \/ handlePrevious
  \/ \E confirmed \in BOOLEAN : handleSave(confirmed)
  \/ handleSubmit
  \/ \E outcome \in FetchOutcomes : Response(outcome)

SpecClient == SpecClientInit /\ [][SpecClientNext]_allVars

ClientTypeOK ==
  /\ page \in {"assessment", "elsewhere"}
  /\ currentQuestion \in 0..(TotalQuestions - 1)
  /\ DOMAIN clientAnswers \subseteq QuestionIds
  /\ pushed \in {"none", "register", "result"}
  /\ lastEvent \in {"none", "incomplete", "sent"} \cup FetchOutcomes

\* the questions without an answer
Unanswered == QuestionIds \ DOMAIN clientAnswers

\* the step is a call of handleSubmit
SubmitInvoked ==
  lastEvent' \in {"incomplete", "sent"} /\ clientVars' # clientVars

\* the step sends a submit request
RequestSent == fetching' # NotFetching /\ fetching = NotFetching

\* C23: a submit request is sent only when every question has an answer, and
\* it carries an answer for every question; handleSubmit called with fewer
\* answers than questions sends nothing and leaves answers, currentQuestion,
\* isSubmitting and the saved progress as they were.
C23_SubmitOnlyWhenComplete ==
  [][/\ RequestSent =>
          /\ Unanswered = {}
          /\ \A q \in QuestionIds : fetching'.answers[q] = Str(<<clientAnswers[q]>>)
     /\ (SubmitInvoked /\ Unanswered # {}) =>
          /\ ~RequestSent
          /\ UNCHANGED <<fetching, clientAnswers, currentQuestion, isSubmitting,
                         sessionStorage>>]_allVars

\* handleSubmit was called on the last question with the first question
\* answered and the last one not; the progress saved is still there
C23_Witness ==
  /\ lastEvent = "incomplete"
  /\ 1 \in DOMAIN clientAnswers /\ TotalQuestions \in Unanswered
  /\ sessionStorage = Stringify(clientAnswers, currentQuestion)
  /\ fetching = NotFetching /\ ~isSubmitting

\* the step is the end of a submit request, with this outcome
Responded(outcomes) ==
  fetching # NotFetching /\ fetching' = NotFetching /\ lastEvent' \in outcomes

FailedOutcomes == FetchOutcomes \ {"ok"}

\* the step removes the saved progress
ProgressRemoved == sessionStorage # Null /\ sessionStorage' = Null

\* the saved progress is what the component holds in memory
StoredIsInMemory ==
  sessionStorage = Stringify(clientAnswers, currentQuestion)

MaxAnswered == 5

SpecVariantsInit ==
  /\ ScoringIdle
  /\ CallsIdle
  /\ ResultsIdle
  /\ ConnectIdle
  /\ UserIdle
  /\ OwnerIdle
  /\ SubmitIdle
  /\ ClientIdle
  /\ VariantsIdle

\* one more answer at the end of the array: the forEach makes one more pass,
\* and each variant goes on from the counts
AnswerBoth(value) ==
  /\ answered < MaxAnswered
  /\ answered' = answered + 1
  /\ tallied' = TallyFrom(<<value>>, 1, tallied)
  /\ current' = ResultFromCounts(tallied', TestCounts)
  /\ older' = ResultFromCountsOlder(tallied', TestCounts)
  /\ UNCHANGED outsideVariants

SpecVariantsNext == \E value \in AnswerValues : AnswerBoth(value)

SpecVariants == SpecVariantsInit /\ [][SpecVariantsNext]_allVars

\* the difference of the two scores of a dimension is at least the older
\* threshold and below the current one
BetweenThresholds(dim) ==
  LET diff == AbsDiff(current.scores[dim.pair[1]], current.scores[dim.pair[2]])
  IN  diff.kind = "number" /\ diff.val >= closeThresholdOlder
                           /\ diff.val < closeThreshold

SameAlternatives ==
  /\ current.alternativeType1 = older.alternativeType1
  /\ current.alternativeType2 = older.alternativeType2

====
